---- MODULE Spec2Model ----
(***************************************************************************)
(* Near-field diffraction orientation indexing (scripts/new_simulate_nf.py) *)
(*                                                                         *)
(* Detector and angle coordinates are exact integers: one unit is half a   *)
(* pixel (half a frame for angles), so that floor() of a non-integer       *)
(* quotient happens.  The reciprocal inv_deltas[i] = 1/deltas[i] is        *)
(* carried as deltas[i];  (c - base[i]) * inv_deltas[i] is the exact       *)
(* quotient (c - base[i]) / deltas[i].                                     *)
(* Array indices are 0-based as in the source; sequences are 1-based, so   *)
(* element i of a python list is s[i + 1].                                 *)
(***************************************************************************)
EXTENDS Integers, Sequences, FiniteSets, TLC

----------------------------------------------------------------------------
(* Bounds of the model *)

\* largest len(test_crds)
MaxCoords == 3
\* largest controller.get_chunk_size()
MaxChunk == 3
\* largest controller.get_process_count()
MaxCpus == 2
\* largest len(grain_params) handed to simulate_diffractions
MaxSimGrains == 2
\* longest reflection list drawn for the quantizing routines
MaxRefl == 2
\* largest row_dilation, col_dilation
MaxDilation == 1
\* longest array handed to or stored for the checking result handler
MaxLen == 2
\* largest mp.cpu_count() of the host that resolves a configuration
MaxHostCpus == 7
\* rows and entries per vector of the arrays handed to unit_vector
MaxRows == 2
MaxDim == 2
\* the magnitude of the beam vectors
MaxMag == 2

----------------------------------------------------------------------------
(* mockup_experiment: the detector, scaled down *)

ncols == 2
nrows == 2
\* pixel_size = [row_ps, col_ps], in units
row_ps == 2
col_ps == 2
\* ome_step, in units
ome_step == 2
\* ome_period = (0, 2*pi): 2*pi is 4 units
ome_period == <<0, 4>>
\* the period simulate_diffractions maps omega into: (-pi, pi)
sim_ome_period == <<-2, 2>>

\* (mutant) the quotient falls just short of a whole number and int() drops a frame
NFramesShort == ((ome_period[2] - ome_period[1]) \div ome_step) - 1

nframes == (ome_period[2] - ome_period[1]) \div ome_step

\* x_col_edges[i] = col_ps * (i - 0.5*ncols)
x_col_edges(i) == (col_ps * (2 * i - ncols)) \div 2
\* y_row_edges[i] = row_ps * ((nrows - i) - 0.5*nrows): descending
y_row_edges(i) == (row_ps * (2 * (nrows - i) - nrows)) \div 2
ome_edges(i) == i * ome_step

base == << x_col_edges(0), y_row_edges(0), ome_edges(0) >>
deltas == << x_col_edges(1) - x_col_edges(0),
             y_row_edges(1) - y_row_edges(0),
             ome_edges(1) - ome_edges(0) >>
clip_vals == << ncols, nrows >>

----------------------------------------------------------------------------
(* Arithmetic helpers *)

Min(a, b) == IF a < b THEN a ELSE b

\* (mutant) int() alone: the quotient truncated toward zero
Trunc(a, d) ==
    IF (a >= 0) = (d > 0)
    THEN (IF a >= 0 THEN a ELSE 0 - a) \div (IF d > 0 THEN d ELSE 0 - d)
    ELSE 0 - ((IF a >= 0 THEN a ELSE 0 - a) \div (IF d > 0 THEN d ELSE 0 - d))

\* int(np.floor(a * (1/d))) for d # 0
Floor(a, d) == IF d > 0 THEN a \div d ELSE (0 - a) \div (0 - d)

\* numba's wraparound of a negative index on an axis of length n
WrapIndex(z, n) == IF z < 0 THEN z + n ELSE z

RECURSIVE Gcd(_, _)
Gcd(a, b) == IF b = 0 THEN a ELSE Gcd(b, a % b)

\* float(m)/float(n) for n > 0, as the reduced fraction <<num, den>>
FloatDiv(m, n) == << m \div Gcd(m, n), n \div Gcd(m, n) >>

\* a voxel set as image[z, y, x]; an image volume is the set of its lit voxels
Voxels == (0 .. nframes - 1) \X (0 .. nrows - 1) \X (0 .. ncols - 1)

----------------------------------------------------------------------------
(* The quantizing routines *)

\* (mutant) the voxel is flipped instead of set
ToggleVoxel(image, z, y, x) ==
    IF << WrapIndex(z, nframes), y, x >> \in image
    THEN image \ { << WrapIndex(z, nframes), y, x >> }
    ELSE image \cup { << WrapIndex(z, nframes), y, x >> }

\* image[z, y, x] = True
SetVoxel(image, z, y, x) == image \cup { << WrapIndex(z, nframes), y, x >> }

\* image[z, y, x] read as a number
ImageAt(image, z, y, x) ==
    IF << WrapIndex(z, nframes), y, x >> \in image THEN 1 ELSE 0

\* (mutant) the clip range taken as [0, clip], as the docstring words it
QuantClippedInclusive(q, clip) == q < 0 \/ q > clip

\* the clipping test of one axis: "if x < 0 or x >= clip_vals[0]: continue"
WriteClipped(q, clip) == q < 0 \/ q >= clip
QuantClipped(q, clip) == q < 0 \/ q >= clip
ConfClipped(q, clip) == q < 0 \/ q >= clip

RECURSIVE write_pixels_loop(_, _, _, _, _, _, _)
write_pixels_loop(i, coords, angles, image, b, d, clip) ==
    IF i > Len(coords) THEN image
    ELSE LET x == Floor(coords[i][1] - b[1], d[1])
             y == Floor(coords[i][2] - b[2], d[2])
             z == Floor(angles[i] - b[3], d[3])
         IN  IF WriteClipped(x, clip[1])
             THEN write_pixels_loop(i + 1, coords, angles, image, b, d, clip)
             ELSE IF WriteClipped(y, clip[2])
             THEN write_pixels_loop(i + 1, coords, angles, image, b, d, clip)
             ELSE write_pixels_loop(i + 1, coords, angles,
                                    SetVoxel(image, z, y, x), b, d, clip)

\* the image after the call
_write_pixels(coords, angles, image, b, d, clip) ==
    write_pixels_loop(1, coords, angles, image, b, d, clip)

RECURSIVE quant_and_clip_loop(_, _, _, _, _, _, _)
quant_and_clip_loop(i, coords, angles, a, b, d, clip) ==
    IF i > Len(coords) THEN a
    ELSE LET x == Floor(coords[i][1] - b[1], d[1])
             y == Floor(coords[i][2] - b[2], d[2])
             z == Floor(angles[i] - b[3], d[3])
         IN  IF QuantClipped(x, clip[1])
             THEN quant_and_clip_loop(i + 1, coords, angles, a, b, d, clip)
             ELSE IF QuantClipped(y, clip[2])
             THEN quant_and_clip_loop(i + 1, coords, angles, a, b, d, clip)
             ELSE quant_and_clip_loop(i + 1, coords, angles,
                                      Append(a, << x, y, z >>), b, d, clip)

\* a[:curr, :], rows (x, y, z)
_quant_and_clip(coords, angles, b, d, clip) ==
    quant_and_clip_loop(1, coords, angles, << >>, b, d, clip)

RECURSIVE quant_and_clip_confidence_loop(_, _, _, _, _, _, _, _, _)
quant_and_clip_confidence_loop(i, coords, angles, image, b, d, clip, in_sensor, matches) ==
    IF i > Len(coords) THEN << matches, in_sensor >>
    ELSE LET x == Floor(coords[i][1] - b[1], d[1])
             y == Floor(coords[i][2] - b[2], d[2])
             z == Floor(angles[i] - b[3], d[3])
         IN  IF ConfClipped(x, clip[1])
             THEN quant_and_clip_confidence_loop(i + 1, coords, angles, image,
                                                 b, d, clip, in_sensor, matches)
             ELSE IF ConfClipped(y, clip[2])
             THEN quant_and_clip_confidence_loop(i + 1, coords, angles, image,
                                                 b, d, clip, in_sensor, matches)
             ELSE quant_and_clip_confidence_loop(i + 1, coords, angles, image,
                                                 b, d, clip, in_sensor + 1,
                                                 matches + ImageAt(image, z, y, x))

\* (mutant) the two counters handed back in the other order
ConfidenceCountsSwapped(coords, angles, image, b, d, clip) ==
    LET r == quant_and_clip_confidence_loop(1, coords, angles, image, b, d,
                                            clip, 0, 0)
    IN  << r[2], r[1] >>

\* <<matches, in_sensor>> when the loop of _quant_and_clip_confidence ends
ConfidenceCounts(coords, angles, image, b, d, clip) ==
    quant_and_clip_confidence_loop(1, coords, angles, image, b, d, clip, 0, 0)

ZeroDivisionError == "ZeroDivisionError"
IndexError == "IndexError"
IOError == "IOError"

\* return float(matches)/float(in_sensor): numba's default error model raises
\* ZeroDivisionError on a zero divisor; a raise is the 1-tuple of its class
_quant_and_clip_confidence(coords, angles, image, b, d, clip) ==
    LET mc == ConfidenceCounts(coords, angles, image, b, d, clip)
    IN  IF mc[2] = 0 THEN << ZeroDivisionError >> ELSE FloatDiv(mc[1], mc[2])

----------------------------------------------------------------------------
(* Geometry and simulation *)

\* the two grains of the mock-up (the columns of quats)
n_grains == 2

\* evaluate_diffraction_angles: per grain, the rows (x0, y0, omega) of its
\* reflections, omega within ome_period
all_angles(igrn) ==
    IF igrn = 0 THEN << << -2, 2, 0 >>, << 0, -1, 3 >> >>
    ELSE << << -1, 1, 2 >> >>

\* angs[:, 2]
omegas(angs) == [i \in 1 .. Len(angs) |-> angs[i][3]]

\* xf.mapAngle(ang, period): ang wrapped into [period[0], period[1])
mapAngle(ang, period) ==
    ((ang - period[1]) % (period[2] - period[1])) + period[1]

\* _project_on_detector_plane(angs, rD, rC, chi, tD, tC, tS, distortion):
\* a pure function of the angle table and the translation tC
_project(angs, tC) ==
    [i \in 1 .. Len(angs) |-> << angs[i][1] + tC, angs[i][2] >>]

\* oscillAnglesOfHKLs and _filter_hkls_eta_ome for grain_params[i] =
\* (orientation, position); orientation n_grains stands for a grain none of
\* whose reflections passes the filter
FilteredAngles(gparam) ==
    IF gparam[1] < n_grains THEN all_angles(gparam[1]) ELSE << >>

\* det_xy and all_angs[:, 2] as handed to _write_pixels
GrainReflections(gparam) ==
    LET all_angs == FilteredAngles(gparam)
    IN  [det_xy |-> _project(all_angs, gparam[2]),
         omes |-> [i \in 1 .. Len(all_angs) |->
                      mapAngle(all_angs[i][3], sim_ome_period)]]

\* one iteration of the loop of simulate_diffractions: the image after
\* _write_pixels
SimulateGrain(gparam, image) ==
    _write_pixels(GrainReflections(gparam).det_xy,
                  GrainReflections(gparam).omes,
                  image, base, deltas, clip_vals)

RECURSIVE simulate_loop(_, _, _)
simulate_loop(i, grain_params, image) ==
    IF i > Len(grain_params) THEN image
    ELSE simulate_loop(i + 1, grain_params,
                       SimulateGrain(grain_params[i], image))

\* the image stack simulate_diffractions returns (np.zeros, then the loop)
simulate_diffractions(grain_params) == simulate_loop(1, grain_params, {})

Abs(a) == IF a < 0 THEN 0 - a ELSE a

\* ski_dilation of every frame with np.ones((2*rd + 1, 2*cd + 1)), into a
\* new volume
Dilate(image, rd, cd) ==
    { v \in Voxels :
        \E w \in image : /\ w[1] = v[1]
                         /\ Abs(w[2] - v[2]) <= rd
                         /\ Abs(w[3] - v[3]) <= cd }

\* the dilated stacks the grand loop is run on: (grain_params, row_dilation,
\* col_dilation)
StackInputs ==
    { << << >>, 0, 0 >>,
      << << << 0, 0 >> >>, 0, 0 >>,
      << << << 0, 2 >> >>, 0, 1 >> }
DilatedStacks ==
    { Dilate(simulate_diffractions(si[1]), si[2], si[3]) : si \in StackInputs }

\* test_crds: a grid of n positions from lo in steps of st (np.linspace)
Linspace(n, lo, st) == [i \in 1 .. n |-> lo + (i - 1) * st]
TestCrdInputs ==
    { Linspace(n, lo, st) : n \in 0 .. MaxCoords, lo \in {-1, 0}, st \in {1, 2} }

----------------------------------------------------------------------------
(* State *)

VARIABLES
    \* -- _grand_loop_precomp, from the voxel limiter on --
    test_crds,            \* the candidate positions
    limits,               \* controller.limits: << >>, or <<k>> for min(x, k)
    chunk_size,           \* controller.get_chunk_size()
    ncpus,                \* controller.get_process_count()
    image_stack_dilated,  \* the dilated volume
    pc,                   \* where _grand_loop_precomp is
    n_coords,             \* the limited voxel count
    status,               \* chunk start -> Pending, InFlight, Completed, Failed
    pos,                  \* chunk start -> items of it.product already done
    confidence,           \* <<igrn, icrd>> -> value; << >> is uninitialised
    wcount,               \* <<igrn, icrd>> -> number of writes (history)
    finished,             \* the local counter
    outqueue,             \* results of the pool, in completion order
    done_order,           \* chunk starts in the order they ended (history)
    mp_state,             \* the module global _mp_state: << >> when undefined
    pool,                 \* the worker pool exists
    timing,               \* controller.timing
    events,               \* the calls made on the controller (history)
    handed,               \* << >>, or <<matrix>> given to handle_result
    err,                  \* << >>, or the exception that left the function
    \* -- get_simulate_diffractions --
    sim_pc,               \* where get_simulate_diffractions is
    cache_file,           \* << >> when np.load fails, else <<image>>
    cache_writable,       \* np.save succeeds
    grain_params,         \* the rows (orientation, position)
    sim_i,                \* the loop index of simulate_diffractions
    image_stack,          \* the volume being built or loaded
    sim_handed,           \* << >>, or <<image>> given to handle_result
    sim_ret,              \* << >>, or <<image>> returned
    sim_err,              \* << >>, or the exception that left the function
    \* -- the quantizing routines on one reflection list --
    q_pc,
    q_coords,             \* (x, y) per reflection
    q_angles,             \* omega per reflection
    q_image,              \* the volume the routines read and write
    q_indices,            \* what _quant_and_clip returned
    q_written,            \* q_image after _write_pixels
    q_counts,             \* <<matches, in_sensor>> of _quant_and_clip_confidence
    \* -- test_orientations and the dilation step of _grand_loop_precomp --
    ang_i,                \* the loop index of evaluate_diffraction_angles
    i_image,              \* the loop index of the dilation
    dilated_buf,          \* the buffer image_stack_dilated lives in; 0: none
    row_dilation,         \* experiment.row_dilation
    col_dilation,         \* experiment.col_dilation
    stack_in,             \* image_stack as _grand_loop_precomp got it (history)
    \* -- CheckingResultHandler.handle_result --
    chk_pc,
    chk_key,              \* the key handed over
    reference_results,    \* key -> << >> when absent, else <<array>>
    chk_value,            \* the array handed over
    chk_log,              \* the messages logged
    \* -- the multiprocessing setting of a configuration section --
    cfg_pc,
    host_ncpus,           \* mp.cpu_count()
    cfg_setting,          \* the 'multiprocessing' entry of the section
    cfg_result,           \* << >>, or <<cfg.multiprocessing>>
    \* -- unit_vector --
    uv_pc,
    uv_a,                 \* the input array
    uv_b,                 \* result: the entries assigned and every value
    uv_err,               \* << >>, or the exception raised
    \* -- make_beam_rmat --
    rm_pc,
    bvec_l,               \* the beam vector
    evec_l,               \* the eta vector
    rm_out,               \* the local out: allocated, entries assigned, values
    rm_early,             \* out was used before np.empty((3,3)) (history)
    rm_err                \* << >>, or what ended the call

glvars == << test_crds, limits, chunk_size, ncpus, image_stack_dilated, pc,
             n_coords, status, pos, confidence, wcount, finished, outqueue,
             done_order, mp_state, pool, timing, events, handed, err >>

simvars == << sim_pc, cache_file, cache_writable, grain_params, sim_i,
              image_stack, sim_handed, sim_ret, sim_err >>

qvars == << q_pc, q_coords, q_angles, q_image, q_indices, q_written,
            q_counts >>

tovars == << ang_i, i_image, dilated_buf, row_dilation, col_dilation,
            stack_in >>

chkvars == << chk_pc, chk_key, reference_results, chk_value, chk_log >>

cfgvars == << cfg_pc, host_ncpus, cfg_setting, cfg_result >>

uvvars == << uv_pc, uv_a, uv_b, uv_err >>

rmvars == << rm_pc, bvec_l, evec_l, rm_out, rm_early, rm_err >>

vars == << glvars, simvars, qvars, tovars, chkvars, cfgvars, uvvars, rmvars >>

----------------------------------------------------------------------------
(* ProcessController *)

\* ProcessController.limit('coords', value)
limit(value) == IF limits = << >> THEN value ELSE Min(value, limits[1])

----------------------------------------------------------------------------
(* The grand loop *)

\* xrange(0, n, size), as the set of its elements
xrange(n, size) == { s \in 0 .. n - 1 : s % size = 0 }

\* (mutant) the stop taken as an inclusive bound
SerialChunkStopInclusive(chunk_start) ==
    Min(n_coords, chunk_start + chunk_size + 1)

\* chunk_stop = min(n_coords, chunk_start+chunk_size), serial path
SerialChunkStop(chunk_start) == Min(n_coords, chunk_start + chunk_size)

\* multiproc_inner_loop: n_coords = len(_mp_state[4]);
\* chunk_stop = min(n_coords, chunk+chunk_size)
MultiprocChunkStop(chunk) ==
    Min(Len(mp_state[1].coords), chunk + mp_state[1].chunk_size)

\* the stop _grand_loop_inner is called with for a chunk
ChunkStop(chunk) ==
    IF ncpus > 1 THEN MultiprocChunkStop(chunk) ELSE SerialChunkStop(chunk)

\* the body of the loop of _grand_loop_inner, up to the value c
CellValue(image, coords, icrd, igrn) ==
    LET angs == all_angles(igrn)
        det_xy == _project(angs, coords[icrd + 1])
    IN  _quant_and_clip_confidence(det_xy, omegas(angs), image,
                                   base, deltas, clip_vals)

Raised(val) == Len(val) = 1

Cells(n) == (0 .. n_grains - 1) \X (0 .. n - 1)

\* (mutant) the exception of a chunk is caught and the loop goes on
SwallowError(e) == [pc |-> "loop", err |-> << >>]

\* the exception of a chunk leaves _grand_loop_precomp: nothing catches it
RaiseTo(e) == [pc |-> "raised", err |-> e]

\* (mutant) the loop ends one result early
LoopExhaustedEarly == finished + 1 >= Cardinality(DOMAIN status)

\* the for loop over the chunks (or over the pool's results) has ended
LoopExhausted == finished = Cardinality(DOMAIN status)

\* (mutant) controller.update called before the counter is incremented
ProgressValueStale(f) == f

\* finished += 1; controller.update(finished): the value passed
ProgressValue(f) == f + 1

\* (mutant) the items of a chunk counted from voxel 0
ItemVoxelFromZero(chunk, k) == k \div n_grains

\* it.product(xrange(start, stop), xrange(n_angles)): icrd of item k
ItemVoxel(chunk, k) == chunk + (k \div n_grains)

\* igrn of item k
ItemGrain(k) == k % n_grains

\* (mutant) the entry is read and left on the stack
PeekOnly(stack) == stack

\* self.timing.pop(): the stack afterwards
pop(stack) == SubSeq(stack, 1, Len(stack) - 1)

MinOf(S) == CHOOSE s \in S : \A t \in S : s <= t
PendingChunks == { c \in DOMAIN status : status[c] = "Pending" }
InFlightChunks == { c \in DOMAIN status : status[c] = "InFlight" }

\* lines 528-544: limiter, chunks, controller.start, the confidence array
\* and, with ncpus > 1, the worker state and the pool
Setup ==
    /\ pc = "setup"
    /\ n_coords' = limit(Len(test_crds))
    /\ LET chunks == xrange(n_coords', chunk_size)
       IN  /\ timing' = Append(timing, << "grand_loop", Cardinality(chunks) >>)
           /\ events' = events \o
                  << << "limit", "coords", Len(test_crds) >>,
                     << "start", "grand_loop", Cardinality(chunks) >> >>
           /\ status' = [c \in chunks |-> "Pending"]
           /\ pos' = [c \in chunks |-> 0]
    /\ finished' = 0
    /\ confidence' = [cell \in Cells(n_coords') |->
                         IF ncpus > 1 THEN << 0, 1 >> ELSE << >>]
    /\ wcount' = [cell \in Cells(n_coords') |-> 0]
    /\ mp_state' = IF ncpus > 1
                   THEN << [chunk_size |-> chunk_size,
                            image_stack |-> image_stack_dilated,
                            coords |-> test_crds] >>
                   ELSE mp_state
    /\ pool' = (ncpus > 1)
    /\ pc' = "loop"
    /\ UNCHANGED << test_crds, limits, chunk_size, ncpus, image_stack_dilated,
                    outqueue, done_order, handed, err >>
    /\ UNCHANGED << simvars, qvars, tovars, chkvars, cfgvars, uvvars, rmvars >>

\* the serial for loop takes the next chunk
SerialDispatch ==
    /\ pc = "loop"
    /\ ncpus <= 1
    /\ InFlightChunks = {}
    /\ PendingChunks # {}
    /\ status' = [status EXCEPT ![MinOf(PendingChunks)] = "InFlight"]
    /\ UNCHANGED << test_crds, limits, chunk_size, ncpus, image_stack_dilated,
                    pc, n_coords, pos, confidence, wcount, finished, outqueue,
                    done_order, mp_state, pool, timing, events, handed, err >>
    /\ UNCHANGED << simvars, qvars, tovars, chkvars, cfgvars, uvvars, rmvars >>

\* a free worker of the pool takes the next task of imap_unordered
PoolDispatch ==
    /\ pool
    /\ PendingChunks # {}
    /\ Cardinality(InFlightChunks) < ncpus
    /\ status' = [status EXCEPT ![MinOf(PendingChunks)] = "InFlight"]
    /\ UNCHANGED << test_crds, limits, chunk_size, ncpus, image_stack_dilated,
                    pc, n_coords, pos, confidence, wcount, finished, outqueue,
                    done_order, mp_state, pool, timing, events, handed, err >>
    /\ UNCHANGED << simvars, qvars, tovars, chkvars, cfgvars, uvvars, rmvars >>

\* one (icrd, igrn) item of _grand_loop_inner on chunk c, in the calling
\* thread (serial) or in a worker (multiproc_inner_loop)
InnerStep(c) ==
    /\ c \in DOMAIN status
    /\ status[c] = "InFlight"
    /\ LET par == ncpus > 1
           coords == IF par THEN mp_state[1].coords ELSE test_crds
           image == IF par THEN mp_state[1].image_stack
                    ELSE image_stack_dilated
           stop == ChunkStop(c)
           icrd == ItemVoxel(c, pos[c])
           igrn == ItemGrain(pos[c])
           val == CellValue(image, coords, icrd, igrn)
           failure == IF Raised(val)
                      THEN << ZeroDivisionError, "_quant_and_clip_confidence" >>
                      ELSE IF icrd >= n_coords
                      THEN << IndexError, "confidence" >>
                      ELSE << >>
           last == pos[c] + 1 = (stop - c) * n_grains
       IN  IF failure # << >>
           THEN /\ status' = [status EXCEPT ![c] = "Failed"]
                /\ done_order' = Append(done_order, c)
                /\ UNCHANGED << pos, confidence, wcount, finished, events >>
                /\ IF par
                   THEN /\ outqueue' = Append(outqueue, << c, failure >>)
                        /\ UNCHANGED << pc, err >>
                   ELSE /\ pc' = RaiseTo(failure).pc
                        /\ err' = RaiseTo(failure).err
                        /\ UNCHANGED outqueue
           ELSE /\ confidence' = [confidence EXCEPT ![<< igrn, icrd >>] = val]
                /\ wcount' = [wcount EXCEPT ![<< igrn, icrd >>] = @ + 1]
                /\ pos' = [pos EXCEPT ![c] = @ + 1]
                /\ UNCHANGED << pc, err >>
                /\ IF last
                   THEN /\ status' = [status EXCEPT ![c] = "Completed"]
                        /\ done_order' = Append(done_order, c)
                        /\ IF par
                           THEN /\ outqueue' = Append(outqueue, << c, << >> >>)
                                /\ UNCHANGED << finished, events >>
                           ELSE /\ finished' = finished + 1
                                /\ events' = Append(events,
                                           << "update", ProgressValue(finished) >>)
                                /\ UNCHANGED outqueue
                   ELSE UNCHANGED << status, outqueue, done_order, finished,
                                     events >>
    /\ UNCHANGED << test_crds, limits, chunk_size, ncpus, image_stack_dilated,
                    n_coords, mp_state, pool, timing, handed >>
    /\ UNCHANGED << simvars, qvars, tovars, chkvars, cfgvars, uvvars, rmvars >>

\* the parent takes the next result of pool.imap_unordered
Receive ==
    /\ pc = "loop"
    /\ ncpus > 1
    /\ outqueue # << >>
    /\ outqueue' = Tail(outqueue)
    /\ IF Head(outqueue)[2] = << >>
       THEN /\ finished' = finished + 1
            /\ events' = Append(events, << "update", ProgressValue(finished) >>)
            /\ UNCHANGED << pc, err >>
       ELSE /\ pc' = RaiseTo(Head(outqueue)[2]).pc
            /\ err' = RaiseTo(Head(outqueue)[2]).err
            /\ UNCHANGED << finished, events >>
    /\ UNCHANGED << test_crds, limits, chunk_size, ncpus, image_stack_dilated,
                    n_coords, status, pos, confidence, wcount, done_order,
                    mp_state, pool, timing, handed >>
    /\ UNCHANGED << simvars, qvars, tovars, chkvars, cfgvars, uvvars, rmvars >>

\* the loop ends; with ncpus > 1 the with block is left (del _mp_state)
\* and the pool deleted
ExitLoop ==
    /\ pc = "loop"
    /\ LoopExhausted
    /\ pc' = "finish"
    /\ mp_state' = IF ncpus > 1 THEN << >> ELSE mp_state
    /\ pool' = FALSE
    /\ UNCHANGED << test_crds, limits, chunk_size, ncpus, image_stack_dilated,
                    n_coords, status, pos, confidence, wcount, finished,
                    outqueue, done_order, timing, events, handed, err >>
    /\ UNCHANGED << simvars, qvars, tovars, chkvars, cfgvars, uvvars, rmvars >>

\* controller.finish(subprocess); controller.handle_result("confidence", ...)
\* finish logs total/entry[1], which raises when the count is 0
FinishAndReport ==
    /\ pc = "finish"
    /\ timing' = pop(timing)
    /\ IF timing[Len(timing)][2] = 0
       THEN /\ events' = Append(events, << "finish", "grand_loop" >>)
            /\ pc' = "raised"
            /\ err' = << ZeroDivisionError, "finish" >>
            /\ UNCHANGED handed
       ELSE /\ events' = events \o << << "finish", "grand_loop" >>,
                                     << "handle_result", "confidence" >> >>
            /\ handed' = << confidence >>
            /\ pc' = "done"
            /\ UNCHANGED err
    /\ UNCHANGED << test_crds, limits, chunk_size, ncpus, image_stack_dilated,
                    n_coords, status, pos, confidence, wcount, finished,
                    outqueue, done_order, mp_state, pool >>
    /\ UNCHANGED << simvars, qvars, tovars, chkvars, cfgvars, uvvars, rmvars >>

GLInit ==
    /\ test_crds \in TestCrdInputs
    /\ limits \in { << >> } \cup { << k >> : k \in 0 .. MaxCoords }
    /\ chunk_size \in 1 .. MaxChunk
    /\ ncpus \in 1 .. MaxCpus
    /\ image_stack_dilated \in DilatedStacks
    /\ pc = "setup"
    /\ n_coords = 0
    /\ status = << >>
    /\ pos = << >>
    /\ confidence = << >>
    /\ wcount = << >>
    /\ finished = 0
    /\ outqueue = << >>
    /\ done_order = << >>
    /\ mp_state = << >>
    /\ pool = FALSE
    /\ timing = << >>
    /\ events = << >>
    /\ handed = << >>
    /\ err = << >>

GLIdle ==
    /\ test_crds = << >>
    /\ limits = << >>
    /\ chunk_size = 1
    /\ ncpus = 1
    /\ image_stack_dilated = {}
    /\ pc = "idle"
    /\ n_coords = 0
    /\ status = << >>
    /\ pos = << >>
    /\ confidence = << >>
    /\ wcount = << >>
    /\ finished = 0
    /\ outqueue = << >>
    /\ done_order = << >>
    /\ mp_state = << >>
    /\ pool = FALSE
    /\ timing = << >>
    /\ events = << >>
    /\ handed = << >>
    /\ err = << >>

----------------------------------------------------------------------------
(* get_simulate_diffractions *)

\* the positions of the simulated grains
SimPositions == {0, 1, 2, 4}

GrainParamInputs ==
    UNION { [1 .. n -> (0 .. n_grains) \X SimPositions] : n \in 0 .. MaxSimGrains }

SimInit ==
    /\ sim_pc = "load"
    /\ cache_file \in { << >>, << {} >>, << { << 0, 0, 0 >> } >> }
    /\ cache_writable \in BOOLEAN
    /\ grain_params \in GrainParamInputs
    /\ sim_i = 0
    /\ image_stack = {}
    /\ sim_handed = << >>
    /\ sim_ret = << >>
    /\ sim_err = << >>

SimIdle ==
    /\ sim_pc = "idle"
    /\ cache_file = << >>
    /\ cache_writable = TRUE
    /\ grain_params = << >>
    /\ sim_i = 0
    /\ image_stack = {}
    /\ sim_handed = << >>
    /\ sim_ret = << >>
    /\ sim_err = << >>

GLFrame ==
    UNCHANGED << test_crds, limits, chunk_size, ncpus, image_stack_dilated, pc,
                 n_coords, status, pos, confidence, wcount, finished, outqueue,
                 done_order, mp_state, pool, handed, err,
                 tovars, chkvars, cfgvars, uvvars, rmvars >>

\* try: image_stack = np.load(cache_file); except Exception: the call of
\* simulate_diffractions up to controller.start
LoadCache ==
    /\ sim_pc = "load"
    /\ IF cache_file # << >>
       THEN /\ image_stack' = cache_file[1]
            /\ sim_pc' = "handle"
            /\ UNCHANGED << timing, events >>
       ELSE /\ image_stack' = {}
            /\ timing' = Append(timing, << "simulate diffractions",
                                           Len(grain_params) >>)
            /\ events' = Append(events, << "start", "simulate diffractions",
                                           Len(grain_params) >>)
            /\ sim_pc' = "simulate"
    /\ UNCHANGED << cache_file, cache_writable, grain_params, sim_i,
                    sim_handed, sim_ret, sim_err >>
    /\ GLFrame
    /\ UNCHANGED qvars

\* one iteration of the loop of simulate_diffractions
SimulateStep ==
    /\ sim_pc = "simulate"
    /\ sim_i < Len(grain_params)
    /\ image_stack' = SimulateGrain(grain_params[sim_i + 1], image_stack)
    /\ events' = Append(events, << "update", sim_i + 1 >>)
    /\ sim_i' = sim_i + 1
    /\ UNCHANGED << sim_pc, cache_file, cache_writable, grain_params,
                    sim_handed, sim_ret, sim_err, timing >>
    /\ GLFrame
    /\ UNCHANGED qvars

\* controller.finish(subprocess), return, and np.save(cache_file, ...) in
\* the except block: nothing catches what np.save raises
SimFinishSave ==
    /\ sim_pc = "simulate"
    /\ sim_i = Len(grain_params)
    /\ timing' = pop(timing)
    /\ events' = Append(events, << "finish", "simulate diffractions" >>)
    /\ IF timing[Len(timing)][2] = 0
       THEN /\ sim_pc' = "raised"
            /\ sim_err' = << ZeroDivisionError, "finish" >>
            /\ UNCHANGED cache_file
       ELSE IF cache_writable
       THEN /\ cache_file' = << image_stack >>
            /\ sim_pc' = "handle"
            /\ UNCHANGED sim_err
       ELSE /\ sim_pc' = "raised"
            /\ sim_err' = << IOError, "np.save" >>
            /\ UNCHANGED cache_file
    /\ UNCHANGED << cache_writable, grain_params, sim_i, image_stack,
                    sim_handed, sim_ret >>
    /\ GLFrame
    /\ UNCHANGED qvars

\* controller.handle_result('image_stack', image_stack); return image_stack
HandleImageStack ==
    /\ sim_pc = "handle"
    /\ sim_handed' = << image_stack >>
    /\ events' = Append(events, << "handle_result", "image_stack" >>)
    /\ sim_ret' = << image_stack >>
    /\ sim_pc' = "returned"
    /\ UNCHANGED << cache_file, cache_writable, grain_params, sim_i,
                    image_stack, sim_err, timing >>
    /\ GLFrame
    /\ UNCHANGED qvars

SimNext ==
    \/ LoadCache
    \/ SimulateStep
    \/ SimFinishSave
    \/ HandleImageStack

----------------------------------------------------------------------------
(* The quantizing routines on one reflection list *)

\* the coordinates on both sides of the two edges of axis i (1 = x, 2 = y)
EdgeCoords(i) ==
    LET sgn == IF deltas[i] > 0 THEN 1 ELSE 0 - 1
        far == base[i] + clip_vals[i] * deltas[i]
    IN  { base[i] - sgn, base[i], far - sgn, far }

\* omega of either period: frames -1 (wrapped) and 0
EdgeAngles == { sim_ome_period[1], ome_period[1] + 1 }

ReflLists(S) == UNION { [1 .. n -> S] : n \in 0 .. MaxRefl }

QImages == { {}, Voxels, { << 0, 0, 0 >> } }

QuantInit ==
    /\ q_pc = "input"
    /\ q_coords \in ReflLists(EdgeCoords(1) \X EdgeCoords(2))
    /\ q_angles \in ReflLists(EdgeAngles)
    /\ Len(q_angles) = Len(q_coords)
    /\ q_image \in QImages
    /\ q_indices = << >>
    /\ q_written = {}
    /\ q_counts = << >>

QIdle ==
    /\ q_pc = "idle"
    /\ q_coords = << >>
    /\ q_angles = << >>
    /\ q_image = {}
    /\ q_indices = << >>
    /\ q_written = {}
    /\ q_counts = << >>

\* the three routines applied to the same list
Quantize ==
    /\ q_pc = "input"
    /\ q_indices' = _quant_and_clip(q_coords, q_angles, base, deltas, clip_vals)
    /\ q_written' = _write_pixels(q_coords, q_angles, q_image,
                                  base, deltas, clip_vals)
    /\ q_counts' = ConfidenceCounts(q_coords, q_angles, q_image,
                                    base, deltas, clip_vals)
    /\ q_pc' = "done"
    /\ UNCHANGED << q_coords, q_angles, q_image >>
    /\ GLFrame
    /\ UNCHANGED << timing, events >>
    /\ UNCHANGED simvars

QuantNext == Quantize

----------------------------------------------------------------------------
(* test_orientations: the angle tables, then the dilation step of        *)
(* _grand_loop_precomp                                                     *)

\* the buffer the image_stack argument lives in
ImageStackBuf == 1

\* (mutant) the output is the input array itself
EmptyLikeAlias(buf) == buf

\* np.empty_like(image_stack): a new buffer of the same shape
empty_like(buf) == buf + 1

\* what a new buffer may hold before it is written
Uninitialised == { {}, Voxels }

\* (mutant) the + 1 of the centre pixel is forgotten
DilationShapeNoCentre(rd, cd) == << 2 * rd, 2 * cd >>

\* dilation_shape = np.ones((2*row_dilation + 1, 2*col_dilation + 1))
dilation_shape(rd, cd) == << 2 * rd + 1, 2 * cd + 1 >>

\* ski_dilation(image[f], np.ones(shape)): pixel (r, c) of frame f is the
\* maximum of the input under the structuring element centred on it; pixels
\* beyond the border do not count
ski_dilation(image, f, shape) ==
    { v \in Voxels :
        /\ v[1] = f
        /\ \E i \in 0 .. shape[1] - 1, j \in 0 .. shape[2] - 1 :
               << f, v[2] + i - (shape[1] \div 2), v[3] + j - (shape[2] \div 2) >>
                   \in image }

\* the volume with frame f replaced
WithFrame(image, f, frame) == { v \in image : v[1] # f } \cup frame

\* the variables of the grand loop proper, before it is entered
GLUnstarted ==
    /\ n_coords = 0
    /\ status = << >>
    /\ pos = << >>
    /\ confidence = << >>
    /\ wcount = << >>
    /\ finished = 0
    /\ outqueue = << >>
    /\ done_order = << >>
    /\ mp_state = << >>
    /\ pool = FALSE
    /\ timing = << >>
    /\ events = << >>
    /\ handed = << >>
    /\ err = << >>

GLUntouched ==
    UNCHANGED << test_crds, limits, chunk_size, ncpus, n_coords, status, pos,
                 confidence, wcount, finished, outqueue, done_order, mp_state,
                 pool, handed, err >>

SimUntouched ==
    UNCHANGED << sim_pc, cache_file, cache_writable, grain_params, sim_i,
                 sim_handed, sim_ret, sim_err >>

\* evaluate_diffraction_angles: controller.start
EvaluateStart ==
    /\ pc = "main"
    /\ sim_pc = "returned"
    /\ timing' = Append(timing, << "evaluate diffraction angles", n_grains >>)
    /\ events' = Append(events,
                        << "start", "evaluate diffraction angles", n_grains >>)
    /\ ang_i' = 0
    /\ pc' = "angles"
    /\ GLUntouched
    /\ SimUntouched
    /\ UNCHANGED << image_stack, image_stack_dilated, i_image, dilated_buf,
                    row_dilation, col_dilation, stack_in >>
    /\ UNCHANGED << qvars, chkvars, cfgvars, uvvars, rmvars >>

\* one exp_map: all_angles.append(...), controller.update(i+1)
EvaluateStep ==
    /\ pc = "angles"
    /\ ang_i < n_grains
    /\ events' = Append(events, << "update", ang_i + 1 >>)
    /\ ang_i' = ang_i + 1
    /\ GLUntouched
    /\ SimUntouched
    /\ UNCHANGED << pc, timing, image_stack, image_stack_dilated, i_image,
                    dilated_buf, row_dilation, col_dilation, stack_in >>
    /\ UNCHANGED << qvars, chkvars, cfgvars, uvvars, rmvars >>

\* controller.finish(subprocess); test_orientations goes on to call
\* _grand_loop_precomp
EvaluateFinish ==
    /\ pc = "angles"
    /\ ang_i = n_grains
    /\ timing' = pop(timing)
    /\ events' = Append(events, << "finish", "evaluate diffraction angles" >>)
    /\ pc' = "precomp"
    /\ GLUntouched
    /\ SimUntouched
    /\ UNCHANGED << image_stack, image_stack_dilated, ang_i, i_image,
                    dilated_buf, row_dilation, col_dilation, stack_in >>
    /\ UNCHANGED << qvars, chkvars, cfgvars, uvvars, rmvars >>

\* image_stack_dilated = np.empty_like(image_stack); controller.start
DilateAlloc ==
    /\ pc = "precomp"
    /\ dilated_buf' = empty_like(ImageStackBuf)
    /\ \E garbage \in Uninitialised :
           image_stack_dilated' =
               IF dilated_buf' = ImageStackBuf THEN image_stack ELSE garbage
    /\ stack_in' = image_stack
    /\ i_image' = 0
    /\ timing' = Append(timing, << "dilate image_stack", nframes >>)
    /\ events' = Append(events, << "start", "dilate image_stack", nframes >>)
    /\ pc' = "dilate"
    /\ GLUntouched
    /\ SimUntouched
    /\ UNCHANGED << image_stack, ang_i, row_dilation, col_dilation >>
    /\ UNCHANGED << qvars, chkvars, cfgvars, uvvars, rmvars >>

\* ski_dilation(image_stack[i_image], dilation_shape,
\*              out=image_stack_dilated[i_image]); controller.update
DilateFrame ==
    /\ pc = "dilate"
    /\ i_image < nframes
    /\ LET frame == ski_dilation(image_stack, i_image,
                                 dilation_shape(row_dilation, col_dilation))
           written == WithFrame(image_stack_dilated, i_image, frame)
       IN  /\ image_stack_dilated' = written
           /\ image_stack' = IF dilated_buf = ImageStackBuf
                             THEN written ELSE image_stack
    /\ events' = Append(events, << "update", i_image + 1 >>)
    /\ i_image' = i_image + 1
    /\ GLUntouched
    /\ SimUntouched
    /\ UNCHANGED << pc, timing, ang_i, dilated_buf, row_dilation, col_dilation,
                    stack_in >>
    /\ UNCHANGED << qvars, chkvars, cfgvars, uvvars, rmvars >>

\* controller.finish(subprocess): the dilation has ended
DilateFinish ==
    /\ pc = "dilate"
    /\ i_image = nframes
    /\ timing' = pop(timing)
    /\ events' = Append(events, << "finish", "dilate image_stack" >>)
    /\ pc' = "setup"
    /\ GLUntouched
    /\ SimUntouched
    /\ UNCHANGED << image_stack, image_stack_dilated, ang_i, i_image,
                    dilated_buf, row_dilation, col_dilation, stack_in >>
    /\ UNCHANGED << qvars, chkvars, cfgvars, uvvars, rmvars >>

TOIdle ==
    /\ ang_i = 0
    /\ i_image = 0
    /\ dilated_buf = 0
    /\ row_dilation = 0
    /\ col_dilation = 0
    /\ stack_in = {}

\* _grand_loop_precomp entered with any volume and any pair of radii
DilateInit ==
    /\ pc = "precomp"
    /\ image_stack \in SUBSET Voxels
    /\ row_dilation \in 0 .. MaxDilation
    /\ col_dilation \in 0 .. MaxDilation
    /\ test_crds = << >>
    /\ limits = << >>
    /\ chunk_size = 1
    /\ ncpus = 1
    /\ image_stack_dilated = {}
    /\ GLUnstarted
    /\ sim_pc = "idle"
    /\ cache_file = << >>
    /\ cache_writable = TRUE
    /\ grain_params = << >>
    /\ sim_i = 0
    /\ sim_handed = << >>
    /\ sim_ret = << >>
    /\ sim_err = << >>
    /\ ang_i = 0
    /\ i_image = 0
    /\ dilated_buf = 0
    /\ stack_in = {}

DilateNext ==
    \/ DilateAlloc
    \/ DilateFrame
    \/ DilateFinish

----------------------------------------------------------------------------
(* main *)

\* grain_params of the mock-up: grain i at its position
MainGrainParams ==
    { [i \in 1 .. n |-> << (i - 1) % n_grains, 0 >>] : n \in 1 .. MaxSimGrains }

\* controller.handle_result('experiment', ...); ('grain_params', ...)
MainStart ==
    /\ sim_pc = "main"
    /\ events' = events \o << << "handle_result", "experiment" >>,
                              << "handle_result", "grain_params" >> >>
    /\ sim_pc' = "load"
    /\ UNCHANGED << cache_file, cache_writable, grain_params, sim_i,
                    image_stack, sim_handed, sim_ret, sim_err, timing >>
    /\ GLFrame
    /\ UNCHANGED qvars

MainInit ==
    /\ pc = "main"
    /\ sim_pc = "main"
    /\ test_crds \in { Linspace(n, 0, 1) : n \in 1 .. MaxCoords }
    /\ limits \in { << >> } \cup { << k >> : k \in 0 .. MaxCoords }
    /\ chunk_size \in 1 .. MaxChunk
    /\ ncpus \in 1 .. MaxCpus
    /\ image_stack_dilated = {}
    /\ GLUnstarted
    /\ cache_file \in { << >>, << { << 0, 0, 0 >> } >> }
    /\ cache_writable \in BOOLEAN
    /\ grain_params \in MainGrainParams
    /\ sim_i = 0
    /\ image_stack = {}
    /\ sim_handed = << >>
    /\ sim_ret = << >>
    /\ sim_err = << >>
    /\ row_dilation \in 0 .. MaxDilation
    /\ col_dilation = row_dilation
    /\ ang_i = 0
    /\ i_image = 0
    /\ dilated_buf = 0
    /\ stack_in = {}

MainNext ==
    \/ MainStart
    \/ LoadCache
    \/ SimulateStep
    \/ SimFinishSave
    \/ HandleImageStack
    \/ EvaluateStart
    \/ EvaluateStep
    \/ EvaluateFinish
    \/ DilateAlloc
    \/ DilateFrame
    \/ DilateFinish
    \/ Setup
    \/ SerialDispatch
    \/ PoolDispatch
    \/ \E c \in 0 .. MaxCoords : InnerStep(c)
    \/ Receive
    \/ ExitLoop
    \/ FinishAndReport

----------------------------------------------------------------------------
(* CheckingResultHandler *)

Keys == { "experiment", "grain_params", "image_stack", "confidence" }

\* an array: its trailing shape w and, per leading index, the value its row
\* holds; values are multiples of np.allclose's absolute tolerance
TailWidths == { 2, 3 }
Arrays ==
    { [w |-> tw, rows |-> r] :
        tw \in TailWidths, r \in UNION { [1 .. n -> 0 .. 2] : n \in 0 .. MaxLen } }

\* the absolute tolerance of np.allclose, in units of itself (the relative
\* tolerance adds less than one unit to values this small)
Atol == 1

\* value[:n]
Prefix(a, n) == [w |-> a.w, rows |-> SubSeq(a.rows, 1, n)]

\* the shapes of two slices of equal length broadcast against each other
Broadcastable(a, b) == a.w = b.w \/ a.w = 1 \/ b.w = 1

\* np.allclose(a, b) for broadcastable slices of equal length
allclose(a, b) ==
    \A i \in 1 .. Len(a.rows) : Abs(a.rows[i] - b.rows[i]) <= Atol

\* (mutant) the longer of the two lengths is taken as the window
CheckLenLonger(reference, value) ==
    IF Len(reference.rows) > Len(value.rows)
    THEN Len(reference.rows) ELSE Len(value.rows)

\* check_len = min(len(reference), len(value))
check_len(reference, value) == Min(Len(reference.rows), Len(value.rows))

\* CheckingResultHandler.handle_result(key, value): the messages it logs.
\* A key the file lacks leaves reference = None, len(None) raises and the
\* except branch logs; so does np.allclose on shapes that do not broadcast.
handle_result(key, value, refs) ==
    IF key \in { "experiment", "image_stack" } THEN << >>
    ELSE IF key \notin DOMAIN refs
    THEN << "KeyError", "No reference result.",
            "Failure trying to check the results." >>
    ELSE LET reference == refs[key]
             n == check_len(reference, value)
         IN  IF ~Broadcastable(Prefix(value, n), Prefix(reference, n))
             THEN << "Failure trying to check the results." >>
             ELSE IF ~allclose(Prefix(value, n), Prefix(reference, n))
             THEN << "FAIL", "FAIL" >>
             ELSE IF Len(value.rows) > n
             THEN << "PARTIAL PASS" >>
             ELSE << "FULL PASS" >>

ChkInit ==
    /\ chk_pc = "input"
    /\ chk_key \in Keys
    /\ chk_value \in Arrays
    /\ reference_results \in { << >> } \cup { (chk_key :> a) : a \in Arrays }
    /\ chk_log = << >>

ChkIdle ==
    /\ chk_pc = "idle"
    /\ chk_key = "experiment"
    /\ chk_value = [w |-> 1, rows |-> << >>]
    /\ reference_results = << >>
    /\ chk_log = << >>

\* controller.handle_result(key, value) with the checking handler
HandleResult ==
    /\ chk_pc = "input"
    /\ chk_log' = handle_result(chk_key, chk_value, reference_results)
    /\ chk_pc' = "done"
    /\ UNCHANGED << chk_key, chk_value, reference_results >>
    /\ UNCHANGED << glvars, simvars, qvars, tovars, cfgvars, uvvars, rmvars >>

CheckNext == HandleResult

----------------------------------------------------------------------------
(* hexrd.config: the 'multiprocessing' setting *)

\* the 'multiprocessing' entries of reference_data: not given, an integer
\* or a string
reference_data ==
    { << "none" >>, << "int", 0 - 1 >>, << "str", "all" >>, << "str", "half" >>,
      << "int", 2 >>, << "int", 1000 >>, << "int", 0 - 1000 >>,
      << "str", "foo" >> }

Max(a, b) == IF a > b THEN a ELSE b

\* (mutant) integers are taken as they are given
multiprocessing_unclamped(setting, n) ==
    IF setting[1] = "int" THEN setting[2] ELSE n - 1

\* cfg.multiprocessing on a host of n cpus: the default is -1; 'all' and
\* 'half' are n and n/2; a positive integer is used up to n; a negative one
\* is counted back from n, not below 1; anything else is n - 1
multiprocessing(setting, n) ==
    IF setting[1] = "none" THEN Max(1, n - 1)
    ELSE IF setting[1] = "int"
    THEN (IF setting[2] > 0 THEN Min(setting[2], n) ELSE Max(1, n + setting[2]))
    ELSE IF setting[2] = "all" THEN n
    ELSE IF setting[2] = "half" THEN n \div 2
    ELSE n - 1

CfgInit ==
    /\ cfg_pc = "input"
    /\ host_ncpus \in 1 .. MaxHostCpus
    /\ cfg_setting \in reference_data
    /\ cfg_result = << >>

CfgIdle ==
    /\ cfg_pc = "idle"
    /\ host_ncpus = 1
    /\ cfg_setting = << "none" >>
    /\ cfg_result = << >>

\* the property cfg.multiprocessing is read
ResolveMultiprocessing ==
    /\ cfg_pc = "input"
    /\ cfg_result' = << multiprocessing(cfg_setting, host_ncpus) >>
    /\ cfg_pc' = "done"
    /\ UNCHANGED << host_ncpus, cfg_setting >>
    /\ UNCHANGED << glvars, simvars, qvars, tovars, chkvars, uvvars, rmvars >>

CfgNext == ResolveMultiprocessing

----------------------------------------------------------------------------
(* _grand_loop: the neighbourhood check on the raw volume *)

\* (mutant) the upper ends of the window taken without the + 1
CheckWithDilationShort(image, frame_index, row_index, col_index, rd, cd, nr, nc) ==
    IF \E r \in Max(row_index - rd, 0) .. Min(row_index + rd, nr) - 1,
          c \in Max(col_index - cd, 0) .. Min(col_index + cd, nc) - 1 :
           ImageAt(image, frame_index, r, c) = 1
    THEN 1 ELSE 0

\* _check_with_dilation: 1.0 when a voxel of the window is lit, else 0.0
_check_with_dilation(image, frame_index, row_index, col_index, rd, cd, nr, nc) ==
    LET min_row == Max(row_index - rd, 0)
        max_row == Min(row_index + rd + 1, nr)
        min_col == Max(col_index - cd, 0)
        max_col == Min(col_index + cd + 1, nc)
    IN  IF \E r \in min_row .. max_row - 1, c \in min_col .. max_col - 1 :
               ImageAt(image, frame_index, r, c) = 1
        THEN 1 ELSE 0

\* _confidence_check: acc_confidence/float(count) over the rows (x, y, z)
_confidence_check(image, indices, rd, cd, nr, nc) ==
    LET hits == { k \in 1 .. Len(indices) :
                    _check_with_dilation(image, indices[k][3], indices[k][2],
                                         indices[k][1], rd, cd, nr, nc) = 1 }
    IN  IF Len(indices) = 0 THEN << ZeroDivisionError >>
        ELSE FloatDiv(Cardinality(hits), Len(indices))

\* the body of the loops of _grand_loop: confidence[igrn, icrd]
GrandLoopCell(image, coords, icrd, igrn, rd, cd) ==
    LET angles == all_angles(igrn)
        det_xy == _project(angles, coords[icrd + 1])
        indices == _quant_and_clip(det_xy, omegas(angles), base, deltas,
                                   clip_vals)
    IN  _confidence_check(image, indices, rd, cd, nrows, ncols)

----------------------------------------------------------------------------
(* hexrd.transforms.xf_numba: unit_vector *)

\* A real number x / sqrt(q), x an integer and q a positive integer, is the
\* pair <<x, q>>; an integer x is <<x, 1>>; q = 0 stands for a division by
\* zero (nan or inf).
SameReal(u, v) ==
    /\ u[2] > 0
    /\ v[2] > 0
    /\ (u[1] > 0) = (v[1] > 0)
    /\ (u[1] < 0) = (v[1] < 0)
    /\ u[1] * u[1] * v[2] = v[1] * v[1] * u[2]

\* the entries of the input vectors
UvEntries == {0 - 1, 0, 2}

\* what freshly allocated float memory may hold (np.empty, np.empty_like)
UninitialisedFloats == { << 0, 1 >>, << 1, 1 >> }

Vectors(d) == [1 .. d -> UvEntries]

\* the arrays handed to unit_vector: rows holds the vectors; a 1-d array is
\* its single vector, and an array of more dimensions one vector in a
\* nested array
UvInputs ==
    { [ndim |-> 1, rows |-> << v >>] : v \in UNION { Vectors(d) : d \in 0 .. MaxDim } }
    \cup
    UNION { { [ndim |-> 2, rows |-> r] : r \in [1 .. n -> Vectors(d)] } : n \in 0 .. MaxRows, d \in 1 .. MaxDim }
    \cup
    { [ndim |-> 3, rows |-> << v >>] : v \in Vectors(1) }

\* the index set of an array; a 1-d array a[j] is indexed as <<0, j>>
UvIndices(a) ==
    IF a.rows = << >> THEN {}
    ELSE (0 .. Len(a.rows) - 1) \X (0 .. Len(a.rows[1]) - 1)

\* np.empty_like(a): no entry assigned, every entry holds what was there
UvEmptyLike(a, fill) ==
    [assigned |-> {}, val |-> [idx \in UvIndices(a) |-> fill]]

RECURSIVE SumSq(_, _)
\* nrm += a[i]*a[i] for i in range(k)
SumSq(v, k) == IF k = 0 THEN 0 ELSE v[k] * v[k] + SumSq(v, k - 1)

\* nrm > cnst.epsf, for nrm = np.sqrt(nrmsq) of integer entries
ExceedsEpsf(nrmsq) == nrmsq > 0

\* b[...] = a[...] / nrm, or b[...] = a[...], of the two branches
UvQuotient(x, nrmsq) == IF ExceedsEpsf(nrmsq) THEN << x, nrmsq >> ELSE << x, 1 >>

\* _unit_vector_single(a, b)
_unit_vector_single(a, b) ==
    LET n == Len(a)
        nrmsq == SumSq(a, n)
    IN  [assigned |-> b.assigned \cup { << 0, i >> : i \in 0 .. n - 1 },
         val |-> [idx \in DOMAIN b.val |-> UvQuotient(a[idx[2] + 1], nrmsq)]]

RECURSIVE unit_vector_multi_loop(_, _, _)
\* _unit_vector_multi, the outer loop from row i on.  The loops of lines
\* 315 and 318 run over i in range(n) again, with j left at dim - 1 by the
\* loop of line 310: they store column dim - 1 of every row, divided by
\* the norm of the row the outer loop is at.
unit_vector_multi_loop(i, a, b) ==
    LET n == Len(a)
        dim == Len(a[1])
        j == dim - 1
        nrmsq == SumSq(a[i + 1], dim)
        stored == [assigned |-> b.assigned \cup { << k, j >> : k \in 0 .. n - 1 },
                   val |-> [idx \in DOMAIN b.val |->
                              IF idx[2] = j
                              THEN UvQuotient(a[idx[1] + 1][j + 1], nrmsq)
                              ELSE b.val[idx]]]
    IN  IF i >= n THEN b ELSE unit_vector_multi_loop(i + 1, a, stored)

\* _unit_vector_multi(a, b)
_unit_vector_multi(a, b) ==
    IF Len(a) = 0 THEN b ELSE unit_vector_multi_loop(0, a, b)

ValueError == "ValueError"

\* unit_vector(a): the result array and the exception raised, if any
unit_vector(a, fill) ==
    LET result == UvEmptyLike(a, fill)
    IN  IF a.ndim = 1
        THEN [result |-> _unit_vector_single(a.rows[1], result), err |-> << >>]
        ELSE IF a.ndim = 2
        THEN [result |-> _unit_vector_multi(a.rows, result), err |-> << >>]
        ELSE [result |-> result, err |-> << ValueError >>]

UvInit ==
    /\ uv_pc = "input"
    /\ uv_a \in UvInputs
    /\ uv_b = [assigned |-> {}, val |-> << >>]
    /\ uv_err = << >>

UvIdle ==
    /\ uv_pc = "idle"
    /\ uv_a = [ndim |-> 1, rows |-> << << >> >>]
    /\ uv_b = [assigned |-> {}, val |-> << >>]
    /\ uv_err = << >>

\* a call of unit_vector(a)
UnitVector ==
    /\ uv_pc = "input"
    /\ \E fill \in UninitialisedFloats :
           /\ uv_b' = unit_vector(uv_a, fill).result
           /\ uv_err' = unit_vector(uv_a, fill).err
    /\ uv_pc' = "done"
    /\ UNCHANGED uv_a
    /\ UNCHANGED << glvars, simvars, qvars, tovars, chkvars, cfgvars, rmvars >>

UvNext == UnitVector

----------------------------------------------------------------------------
(* hexrd.transforms.xf_numba: make_beam_rmat *)

\* the product of two reals x / sqrt(q)
Times(u, v) == << u[1] * v[1], u[2] * v[2] >>

\* the difference of two reals over the same root
Minus(u, v) == << u[1] - v[1], u[2] >>

\* the integer square root of a perfect square
Sqrt(s) == CHOOSE m \in 0 .. s : m * m = s

Axes == { << 1, 0, 0 >>, << 0, 1, 0 >>, << 0, 0, 1 >> }

\* beam vectors along an axis, of either sign and integer magnitude:
\* bvec_l cannot have 0 magnitude (line 418)
BeamInputs ==
    { [i \in 1 .. 3 |-> s * m * ax[i]] : ax \in Axes, s \in {0 - 1, 1}, m \in 1 .. MaxMag }

\* Ze ^ ehat_l, lines 436-438
YeOf(Ze, evec) ==
    << Ze[2] * evec[3] - evec[2] * Ze[3],
       Ze[3] * evec[1] - evec[3] * Ze[1],
       Ze[1] * evec[2] - evec[1] * Ze[2] >>

\* -bvec_l[i] / bvec_mag, lines 431-433
ZeOf(bvec) == [i \in 1 .. 3 |-> (0 - bvec[i]) \div Sqrt(SumSq(bvec, 3))]

\* eta vectors: bvec_l and evec_l cannot be colinear (line 419)
EtaInputs(bvec) ==
    { e \in [1 .. 3 -> {0 - 1, 0, 1}] : YeOf(ZeOf(bvec), e) # << 0, 0, 0 >> }

Entries3x3 == (0 .. 2) \X (0 .. 2)

\* the local name out before line 445: bound to no array
Unbound == [allocated |-> FALSE, assigned |-> {}, val |-> << >>]

\* np.empty((3,3))
Empty3x3(fill) ==
    [allocated |-> TRUE, assigned |-> {}, val |-> [idx \in Entries3x3 |-> fill]]

\* out[idx] = x
Store(out, idx, x) ==
    [out EXCEPT !.assigned = @ \cup {idx}, !.val = [@ EXCEPT ![idx] = x]]

UnboundLocalError == "UnboundLocalError"
SegmentationFault == "SegmentationFault"

\* What the store out[i, 2] = ... of line 430 does while out is bound to no
\* array.  The interpreter (and numba's object mode) raises
\* UnboundLocalError.  Compiled code has the variable zero-initialised and
\* stores through an array structure of null pointers: the process dies, or
\* the store lands outside every array of the call and the function goes on.
EarlyStoreOutcomes == {"raises", "dies", "goes on"}

\* lines 445-464, after the stores of lines 429-430 were lost
make_beam_rmat_tail(bvec, evec, fill) ==
    LET Ze == ZeOf(bvec)
        Ye == YeOf(Ze, evec)
        YeSq == SumSq(Ye, 3)
        \* line 445
        out0 == Empty3x3(fill)
        \* lines 446-448: Ye /= Ye_mag
        Yn == [i \in 1 .. 3 |-> << Ye[i], YeSq >>]
        \* lines 456-458: out[i, 1] = Ye_i / Ye_mag
        out1 == Store(out0, << 0, 1 >>, << Yn[1][1], Yn[1][2] * YeSq >>)
        out2 == Store(out1, << 1, 1 >>, << Yn[2][1], Yn[2][2] * YeSq >>)
        out3 == Store(out2, << 2, 1 >>, << Yn[3][1], Yn[3][2] * YeSq >>)
        \* lines 460-462
        out4 == Store(out3, << 0, 0 >>,
                      Minus(Times(out3.val[<< 1, 1 >>], out3.val[<< 2, 2 >>]),
                            Times(out3.val[<< 1, 2 >>], out3.val[<< 2, 1 >>])))
        out5 == Store(out4, << 1, 0 >>,
                      Minus(Times(out4.val[<< 2, 1 >>], out4.val[<< 0, 2 >>]),
                            Times(out4.val[<< 2, 2 >>], out4.val[<< 0, 1 >>])))
        out6 == Store(out5, << 2, 0 >>,
                      Minus(Times(out5.val[<< 0, 1 >>], out5.val[<< 1, 2 >>]),
                            Times(out5.val[<< 0, 2 >>], out5.val[<< 1, 1 >>])))
    IN  out6

\* make_beam_rmat(bvec_l, evec_l): the array returned, whether out was
\* used before line 445, and the exception or signal that ended the call
make_beam_rmat(bvec, evec, outcome, fill) ==
    IF outcome = "raises"
    THEN [out |-> Unbound, early |-> TRUE, err |-> << UnboundLocalError >>]
    ELSE IF outcome = "dies"
    THEN [out |-> Unbound, early |-> TRUE, err |-> << SegmentationFault >>]
    ELSE [out |-> make_beam_rmat_tail(bvec, evec, fill), early |-> TRUE,
          err |-> << >>]

RmInit ==
    /\ rm_pc = "input"
    /\ bvec_l \in BeamInputs
    /\ evec_l \in EtaInputs(bvec_l)
    /\ rm_out = Unbound
    /\ rm_early = FALSE
    /\ rm_err = << >>

RmIdle ==
    /\ rm_pc = "idle"
    /\ bvec_l = << 0, 0, 1 >>
    /\ evec_l = << 1, 0, 0 >>
    /\ rm_out = Unbound
    /\ rm_early = FALSE
    /\ rm_err = << >>

\* a call of make_beam_rmat(bvec_l, evec_l)
MakeBeamRmat ==
    /\ rm_pc = "input"
    /\ \E outcome \in EarlyStoreOutcomes, fill \in UninitialisedFloats :
           LET r == make_beam_rmat(bvec_l, evec_l, outcome, fill)
           IN  /\ rm_out' = r.out
               /\ rm_early' = r.early
               /\ rm_err' = r.err
    /\ rm_pc' = "done"
    /\ UNCHANGED << bvec_l, evec_l >>
    /\ UNCHANGED << glvars, simvars, qvars, tovars, chkvars, cfgvars, uvvars >>

RmNext == MakeBeamRmat

----------------------------------------------------------------------------
(* Specifications *)

Init == GLInit /\ SimIdle /\ QIdle /\ TOIdle /\ ChkIdle /\ CfgIdle /\ UvIdle /\ RmIdle

Next ==
    \/ Setup
    \/ SerialDispatch
    \/ PoolDispatch
    \/ \E c \in 0 .. MaxCoords : InnerStep(c)
    \/ Receive
    \/ ExitLoop
    \/ FinishAndReport

Spec == Init /\ [][Next]_vars

\* every process that can take a step eventually takes one
FairSpec == Spec /\ WF_vars(Next)

\* get_simulate_diffractions on its own
SimulateInit == GLIdle /\ SimInit /\ QIdle /\ TOIdle /\ ChkIdle /\ CfgIdle /\ UvIdle /\ RmIdle

SimSpec == SimulateInit /\ [][SimNext]_vars

\* the quantizing routines on their own
QuantizeInit == GLIdle /\ SimIdle /\ QuantInit /\ TOIdle /\ ChkIdle /\ CfgIdle /\ UvIdle /\ RmIdle

QuantSpec == QuantizeInit /\ [][QuantNext]_vars

\* the dilation step of _grand_loop_precomp on its own
PrecompInit == DilateInit /\ QIdle /\ ChkIdle /\ CfgIdle /\ UvIdle /\ RmIdle

DilSpec == PrecompInit /\ [][DilateNext]_vars

\* a run of main
RunInit == MainInit /\ QIdle /\ ChkIdle /\ CfgIdle /\ UvIdle /\ RmIdle

MainSpec == RunInit /\ [][MainNext]_vars

\* the checking result handler on its own
CheckingInit == GLIdle /\ SimIdle /\ QIdle /\ TOIdle /\ ChkInit /\ CfgIdle /\ UvIdle /\ RmIdle

CheckSpec == CheckingInit /\ [][CheckNext]_vars

\* the configuration on its own
ConfigInit == GLIdle /\ SimIdle /\ QIdle /\ TOIdle /\ ChkIdle /\ CfgInit /\ UvIdle /\ RmIdle

CfgSpec == ConfigInit /\ [][CfgNext]_vars

\* unit_vector on its own
UnitVectorInit == GLIdle /\ SimIdle /\ QIdle /\ TOIdle /\ ChkIdle /\ CfgIdle /\ UvInit /\ RmIdle

UvSpec == UnitVectorInit /\ [][UvNext]_vars

\* make_beam_rmat on its own
BeamRmatInit == GLIdle /\ SimIdle /\ QIdle /\ TOIdle /\ ChkIdle /\ CfgIdle /\ UvIdle /\ RmInit

RmSpec == BeamRmatInit /\ [][RmNext]_vars

----------------------------------------------------------------------------
(* Chunking of the voxel axis *)

\* the voxel indices _grand_loop_inner iterates for a chunk
ChunkRange(chunk) == chunk .. ChunkStop(chunk) - 1

\* the confidence matrix of a complete run, cell by cell
ExpectedConfidence ==
    [cell \in Cells(limit(Len(test_crds))) |->
        CellValue(image_stack_dilated, test_crds, cell[2], cell[1])]

\* what the serial path hands to handle_result: << >> when it raises
SerialOutcome ==
    IF \/ xrange(limit(Len(test_crds)), chunk_size) = {}
       \/ \E cell \in DOMAIN ExpectedConfidence :
              Raised(ExpectedConfidence[cell])
    THEN << >>
    ELSE << ExpectedConfidence >>

SomeFailed == \E c \in DOMAIN status : status[c] = "Failed"
AllCompleted ==
    pc # "setup" /\ \A c \in DOMAIN status : status[c] = "Completed"

\* C1: while the grand loop runs, the chunk ranges [start, stop) of all chunk
\* starts cover every voxel index 0..n_coords-1 exactly once and hold no
\* index outside 0..n_coords-1, in the serial and in the worker path.
C1_ChunkRangesPartitionVoxels ==
    pc = "loop" =>
        /\ \A i \in 0 .. n_coords - 1 :
               Cardinality({ c \in DOMAIN status : i \in ChunkRange(c) }) = 1
        /\ \A c \in DOMAIN status : ChunkRange(c) \subseteq 0 .. n_coords - 1

\* C2: when _grand_loop_precomp has ended, what it handed to the controller
\* is what the serial path hands over for the same inputs, whatever the
\* process count.
C2_ParallelHandsSerialMatrix ==
    pc \in {"done", "raised"} => handed = SerialOutcome

\* C3: no cell of the confidence matrix is ever written twice, and a run
\* that completes has written every cell with voxel < n_coords exactly once
\* and hands over the matrix fixed by the inputs alone, whatever the order
\* in which the chunks ran and ended.
C3_CellsWrittenOnce ==
    /\ \A cell \in DOMAIN wcount : wcount[cell] <= 1
    /\ pc = "done" =>
           /\ DOMAIN wcount = Cells(n_coords)
           /\ \A cell \in DOMAIN wcount : wcount[cell] = 1
           /\ handed = << ExpectedConfidence >>

\* a completed pool run in which a later chunk ended before an earlier one
C3_Witness ==
    /\ pc = "done"
    /\ ncpus > 1
    /\ \E i, j \in 1 .. Len(done_order) :
           i < j /\ done_order[i] > done_order[j]

\* C4: a (voxel, grain) pair none of whose reflections survives the clipping
\* does not make the evaluator raise: no ZeroDivisionError of
\* _quant_and_clip_confidence leaves the grand loop.
C4_ZeroSurvivorsDoNotRaise ==
    err # << ZeroDivisionError, "_quant_and_clip_confidence" >>

\* C5: every value stored in the confidence matrix lies in [0, 1]: its
\* match count is at least 0 and at most its count of surviving reflections.
C5_ConfidenceInUnitInterval ==
    \A cell \in DOMAIN wcount :
        wcount[cell] > 0 =>
            /\ Len(confidence[cell]) = 2
            /\ confidence[cell][2] > 0
            /\ 0 <= confidence[cell][1]
            /\ confidence[cell][1] <= confidence[cell][2]

\* stored values 0, 1/2 and 1 all occur in one matrix
C5_Witness ==
    /\ \E cell \in DOMAIN wcount :
           wcount[cell] > 0 /\ confidence[cell] = << 1, 2 >>
    /\ \E cell \in DOMAIN wcount :
           wcount[cell] > 0 /\ confidence[cell] = << 1, 1 >>
    /\ \E cell \in DOMAIN wcount :
           wcount[cell] > 0 /\ confidence[cell] = << 0, 1 >>

Reported ==
    \E i \in 1 .. Len(events) : events[i][1] \in {"finish", "handle_result"}

\* C8: once a chunk has failed it stays failed and does no further work (no
\* retry); its exception is either waiting in the pool's results for the
\* parent or has left _grand_loop_precomp, and does leave it in the end;
\* controller.finish and controller.handle_result('confidence', ...) are
\* never called, so no matrix is handed over.
C8_ChunkFailureIsFatal ==
    /\ [](SomeFailed =>
            /\ handed = << >>
            /\ ~Reported
            /\ pc \in {"loop", "raised"}
            /\ pc = "loop" =>
                   \E i \in 1 .. Len(outqueue) : outqueue[i][2] # << >>
            /\ pc = "raised" => err # << >>)
    /\ [][\A c \in DOMAIN status :
              status[c] = "Failed" =>
                  /\ c \in DOMAIN status'
                  /\ status'[c] = "Failed"
                  /\ pos'[c] = pos[c]]_vars
    /\ (SomeFailed ~> pc = "raised")

\* a pool run ended by the exception of one chunk after another chunk had
\* completed and written its cells
C8_Witness ==
    /\ pc = "raised"
    /\ ncpus > 1
    /\ SomeFailed
    /\ \E c \in DOMAIN status : status[c] = "Completed"
    /\ \E cell \in DOMAIN wcount : wcount[cell] = 1

\* C10: controller.finish('grand_loop') and handle_result('confidence', ...)
\* are called only when every chunk is Completed; the set of chunks is fixed
\* once scheduled and a chunk changes state only Pending -> InFlight and
\* InFlight -> Completed (or Failed), so it is dispatched at most once; and
\* unless some chunk fails, all chunks are eventually Completed.
C10_FinishAfterAllChunks ==
    /\ []((pc \in {"finish", "done"} \/ Reported) => AllCompleted)
    /\ [][/\ pc # "setup" => DOMAIN status' = DOMAIN status
          /\ \A c \in DOMAIN status :
                 status'[c] # status[c] =>
                     << status[c], status'[c] >> \in
                         { << "Pending", "InFlight" >>,
                           << "InFlight", "Completed" >>,
                           << "InFlight", "Failed" >> }]_vars
    /\ <>(SomeFailed \/ AllCompleted)

\* a completed pool run of at least two chunks
C10_Witness ==
    /\ pc = "done"
    /\ ncpus > 1
    /\ Cardinality(DOMAIN status) >= 2
    /\ AllCompleted
    /\ Reported

----------------------------------------------------------------------------
(* The quantizer and the rasterizer *)

Sign(i) == IF deltas[i] > 0 THEN 1 ELSE 0 - 1

\* how far coordinate c lies past base[i], counted in the direction of
\* deltas[i]
Past(c, i) == (c - base[i]) * Sign(i)

\* c lies in the half-open range of axis i: from base[i] (included) to
\* base[i] + clip_vals[i]*deltas[i] (excluded)
InGrid(c, i) == 0 <= Past(c, i) /\ Past(c, i) < clip_vals[i] * deltas[i] * Sign(i)

\* the cell of axis i that holds c: cell q runs from base[i] + q*deltas[i]
\* (included) to base[i] + (q+1)*deltas[i] (excluded)
CellOf(c, i) ==
    CHOOSE q \in (0 - (ncols + nrows + nframes)) .. (ncols + nrows + nframes) :
        /\ q * deltas[i] * Sign(i) <= Past(c, i)
        /\ Past(c, i) < (q + 1) * deltas[i] * Sign(i)

KeptPositions ==
    { k \in 1 .. Len(q_coords) :
        InGrid(q_coords[k][1], 1) /\ InGrid(q_coords[k][2], 2) }

VoxelOf(t) == << WrapIndex(t[3], nframes), t[2], t[1] >>

C7_WritePixelsIdempotent ==
    [][(sim_pc = "simulate" /\ sim_i < Len(grain_params)) =>
          LET r == GrainReflections(grain_params[sim_i + 1])
          IN  /\ image_stack \subseteq image_stack'
              /\ _write_pixels(r.det_xy, r.omes, image_stack',
                               base, deltas, clip_vals) = image_stack'
              /\ _quant_and_clip(r.det_xy, r.omes, base, deltas, clip_vals)
                     = << >>
                 => (image_stack' = image_stack /\ sim_pc' = "simulate")]_vars

\* the same grain has been rasterized twice into a volume with lit voxels
C7_Witness ==
    /\ sim_pc = "simulate"
    /\ sim_i = 2
    /\ grain_params[1] = grain_params[2]
    /\ image_stack # {}

\* C9: get_simulate_diffractions is never left by the IOError of a failed
\* cache write, and when it returns, the image stack has been handed to
\* controller.handle_result('image_stack', ...) and is the value returned.
C9_CacheFailuresRecovered ==
    /\ sim_pc = "raised" => sim_err[1] # IOError
    /\ sim_pc = "returned" =>
           (sim_handed = << image_stack >> /\ sim_ret = << image_stack >>)

----------------------------------------------------------------------------
(* Progress reports, the limiter and the frame of a chunk *)

\* the calls recorded after controller.start('grand_loop', ...)
GrandLoopEvents ==
    LET starts == { i \in 1 .. Len(events) :
                      events[i][1] = "start" /\ events[i][2] = "grand_loop" }
    IN  IF starts = {} THEN << >>
        ELSE SubSeq(events, MinOf(starts) + 1, Len(events))

IsUpdate(e) == e[1] = "update"

\* the values passed to controller.update during the grand loop
GrandLoopUpdates ==
    LET ups == SelectSeq(GrandLoopEvents, IsUpdate)
    IN  [i \in 1 .. Len(ups) |-> ups[i][2]]

CompletedChunks == { c \in DOMAIN status : status[c] = "Completed" }

\* results of completed chunks the parent has not taken yet
WaitingResults == { i \in 1 .. Len(outqueue) : outqueue[i][2] = << >> }

\* C11: the values passed to controller.update during the grand loop are
\* 1, 2, ... in increasing order; there is one update for every completed
\* chunk the scheduler has taken note of and none for an item inside a chunk;
\* when the loop has ended they are exactly 1 .. number of chunks; in the
\* serial and in the pool path, whatever the order in which chunks ended.
C11_UpdatesCountChunks ==
    /\ \A i \in 1 .. Len(GrandLoopUpdates) : GrandLoopUpdates[i] = i
    /\ Len(GrandLoopUpdates) = finished
    /\ finished = Cardinality(CompletedChunks) - Cardinality(WaitingResults)
    /\ pc \in {"finish", "done"} =>
           Len(GrandLoopUpdates) = Cardinality(DOMAIN status)

\* a pool run of three chunks that ended out of voxel order, all reported
C11_Witness ==
    /\ pc = "finish"
    /\ ncpus > 1
    /\ GrandLoopUpdates = << 1, 2, 3 >>
    /\ done_order[1] > done_order[2]

\* the voxel indices whose items have been evaluated: the items done, and
\* the item a failed chunk stopped in
EvaluatedVoxels ==
    UNION { { ItemVoxel(c, k) : k \in 0 .. pos[c] - 1 } \cup
            (IF status[c] = "Failed" THEN { ItemVoxel(c, pos[c]) } ELSE {})
            : c \in DOMAIN status }

IsLimit(e) == e[1] = "limit"

\* C12: controller.limit('coords', len(test_crds)) is called exactly once,
\* before any chunk is scheduled; from then on the confidence matrix has
\* exactly the limited number of columns, and no chunk, serial or in a
\* worker, evaluates or writes a voxel index at or above the limited count.
C12_LimiterBoundsEveryChunk ==
    /\ pc = "setup" => (DOMAIN status = {} /\ SelectSeq(events, IsLimit) = << >>)
    /\ pc # "setup" =>
           /\ SelectSeq(events, IsLimit) =
                  << << "limit", "coords", Len(test_crds) >> >>
           /\ n_coords = limit(Len(test_crds))
           /\ DOMAIN confidence = Cells(n_coords)
           /\ EvaluatedVoxels \subseteq 0 .. n_coords - 1
           /\ \A cell \in DOMAIN wcount :
                  wcount[cell] > 0 => cell[2] \in 0 .. n_coords - 1

\* C16: a step of a chunk (serial or in a worker) changes neither the
\* dilated volume, nor the test coordinates, nor the state the workers
\* share, nor the settings of the run; what it changes of the confidence
\* matrix are cells of its own voxel range only.
C16_ChunksWriteOnlyOwnCells ==
    [][\A c \in DOMAIN status :
          (status[c] = "InFlight" /\ c \in DOMAIN status' /\
           (pos'[c] # pos[c] \/ status'[c] # status[c])) =>
              /\ image_stack_dilated' = image_stack_dilated
              /\ test_crds' = test_crds
              /\ mp_state' = mp_state
              /\ << chunk_size, ncpus, n_coords, limits >>' =
                     << chunk_size, ncpus, n_coords, limits >>
              /\ DOMAIN confidence' = DOMAIN confidence
              /\ \A cell \in DOMAIN confidence :
                     (confidence'[cell] # confidence[cell] \/
                      wcount'[cell] # wcount[cell]) =>
                         /\ cell[2] >= c
                         /\ cell[2] < c + chunk_size]_vars

\* two chunks in flight at once in the pool, the later one has written
C16_Witness ==
    /\ ncpus > 1
    /\ Cardinality(InFlightChunks) = 2
    /\ \E c \in InFlightChunks : c > 0 /\ pos[c] > 0

----------------------------------------------------------------------------
(* The checking result handler *)

Verdicts == { "FAIL", "PARTIAL PASS", "FULL PASS" }

LoggedVerdicts == { chk_log[i] : i \in 1 .. Len(chk_log) } \cap Verdicts

\* C13: for a key it checks, the handler logs one verdict: FAIL when the
\* reference file lacks the key or the value differs from the reference on
\* the first min(len(reference), len(value)) entries; PARTIAL PASS when that
\* prefix matches and the reference is shorter than the value; FULL PASS
\* when it matches and the reference is not shorter.
C13_OneVerdictPerKey ==
    (chk_pc = "done" /\ chk_key \notin { "experiment", "image_stack" }) =>
        IF chk_key \notin DOMAIN reference_results
        THEN LoggedVerdicts = { "FAIL" }
        ELSE LET reference == reference_results[chk_key]
                 n == Min(Len(reference.rows), Len(chk_value.rows))
             IN  IF reference.w # chk_value.w
                 THEN Cardinality(LoggedVerdicts) = 1
                 ELSE IF \E i \in 1 .. n :
                             Abs(chk_value.rows[i] - reference.rows[i]) > Atol
                 THEN LoggedVerdicts = { "FAIL" }
                 ELSE IF Len(reference.rows) < Len(chk_value.rows)
                 THEN LoggedVerdicts = { "PARTIAL PASS" }
                 ELSE LoggedVerdicts = { "FULL PASS" }

----------------------------------------------------------------------------
(* The dilation step *)

\* C14: the dilated volume lives in a buffer of its own, not in the buffer
\* of the input; the input volume stays as it was handed in; and when the
\* step has ended, voxel [f, r, c] of the output is on iff some voxel
\* [f, r', c'] of the input with |r' - r| <= row_dilation and
\* |c' - c| <= col_dilation is on.
C14_DilationIntoFreshVolume ==
    pc \in { "dilate", "setup" } =>
        /\ dilated_buf # 0
        /\ dilated_buf # ImageStackBuf
        /\ image_stack = stack_in
        /\ pc = "setup" =>
               \A v \in Voxels :
                   v \in image_stack_dilated <=>
                       \E w \in stack_in :
                           /\ w[1] = v[1]
                           /\ w[2] - v[2] \in (0 - row_dilation) .. row_dilation
                           /\ w[3] - v[3] \in (0 - col_dilation) .. col_dilation

\* one lit corner voxel, grown by one pixel in both directions
C14_Witness ==
    /\ pc = "setup"
    /\ row_dilation = 1
    /\ col_dilation = 1
    /\ stack_in = { << 0, 0, 0 >> }
    /\ << 0, 1, 1 >> \in image_stack_dilated
    /\ << 1, 0, 0 >> \notin image_stack_dilated

\* C15: with row_dilation = 0 and col_dilation = 0 the dilated volume is
\* the input volume, voxel for voxel.
C15_ZeroRadiusIsIdentity ==
    (pc = "setup" /\ row_dilation = 0 /\ col_dilation = 0) =>
        (image_stack_dilated = stack_in /\ image_stack_dilated = image_stack)

\* a volume neither empty nor full went through the step with radii 0
C15_Witness ==
    /\ pc = "setup"
    /\ row_dilation = 0
    /\ col_dilation = 0
    /\ stack_in # {}
    /\ stack_in # Voxels
    /\ i_image = nframes

\* the positions the two grand loops are compared at
ComparedPositions == SimPositions \cup { 0 - 1 }

\* C19: after the dilation step, _check_with_dilation on the raw volume is
\* 1.0 at a voxel iff the dilated volume is on there, for every voxel; and
\* for every grain and candidate position the body of _grand_loop on the
\* raw volume and the body of _grand_loop_inner on the dilated volume give
\* the same confidence (or both raise).
C19_NeighbourhoodCheckIsDilation ==
    pc = "setup" =>
        /\ \A v \in Voxels :
               (_check_with_dilation(stack_in, v[1], v[2], v[3], row_dilation,
                                     col_dilation, nrows, ncols) = 1)
                   <=> v \in image_stack_dilated
        /\ \A igrn \in 0 .. n_grains - 1, p \in ComparedPositions :
               GrandLoopCell(stack_in, << p >>, 0, igrn, row_dilation,
                             col_dilation)
                   = CellValue(image_stack_dilated, << p >>, 0, igrn)

\* a pair whose confidence the tolerance raises above that of the raw volume
C19_Witness ==
    /\ pc = "setup"
    /\ row_dilation = 1
    /\ \E igrn \in 0 .. n_grains - 1, p \in ComparedPositions :
           /\ CellValue(stack_in, << p >>, 0, igrn) = << 0, 1 >>
           /\ CellValue(image_stack_dilated, << p >>, 0, igrn) = << 1, 2 >>

----------------------------------------------------------------------------
(* The phases of a run of main *)

IsPhase(e) == e[1] \in { "start", "finish" }

PhaseEvents == SelectSeq(events, IsPhase)

HandledCount(key) ==
    Cardinality({ i \in 1 .. Len(events) :
                    events[i][1] = "handle_result" /\ events[i][2] = key })

\* C17: the controller's start and finish calls alternate, each finish
\* naming the phase of the start before it, and the timing stack holds
\* exactly the phase that is open; no artifact is handed over twice; and
\* when main has run to its end every phase is closed, the timing stack is
\* empty and each of 'experiment', 'grain_params', 'image_stack' and
\* 'confidence' has been handed over exactly once.
C17_PhasesPairedArtifactsOnce ==
    /\ \A i \in 1 .. Len(PhaseEvents) :
           IF i % 2 = 1 THEN PhaseEvents[i][1] = "start"
           ELSE /\ PhaseEvents[i][1] = "finish"
                /\ PhaseEvents[i][2] = PhaseEvents[i - 1][2]
    /\ IF Len(PhaseEvents) % 2 = 1
       THEN timing = << << PhaseEvents[Len(PhaseEvents)][2],
                           PhaseEvents[Len(PhaseEvents)][3] >> >>
       ELSE timing = << >>
    /\ \A key \in Keys : HandledCount(key) <= 1
    /\ pc = "done" =>
           /\ Len(PhaseEvents) % 2 = 0
           /\ timing = << >>
           /\ \A key \in Keys : HandledCount(key) = 1

\* a complete pool run that simulated, evaluated, dilated and scored
C17_Witness ==
    /\ pc = "done"
    /\ ncpus > 1
    /\ Len(PhaseEvents) = 8
    /\ Cardinality(DOMAIN status) >= 2

----------------------------------------------------------------------------
(* The multiprocessing setting *)

\* the value the test expects of a section on a host of n cpus
ExpectedSetting(setting, n) ==
    IF setting[1] = "none" THEN n - 1
    ELSE IF setting[1] = "int"
    THEN (IF setting[2] = 0 - 1 THEN n - 1
          ELSE IF setting[2] < 0 THEN 1
          ELSE IF setting[2] > n THEN n
          ELSE setting[2])
    ELSE IF setting[2] = "all" THEN n
    ELSE IF setting[2] = "half" THEN n \div 2
    ELSE n - 1

\* C18 (as stated): on any host the resolved setting lies in [1, ncpus] and
\* is ncpus - 1 when unspecified, -1 or an unrecognized string, ncpus for
\* 'all', ncpus/2 for 'half', the integer itself when positive and within
\* range, ncpus when above it, and 1 for a large negative integer.
C18_AlwaysWithinHostCpus ==
    cfg_pc = "done" =>
        /\ cfg_result[1] \in 1 .. host_ncpus
        /\ cfg_result[1] = ExpectedSetting(cfg_setting, host_ncpus)

\* C18 (amended): on a host of at least two cpus the resolved setting lies
\* in [1, ncpus] and is ncpus - 1 when unspecified, -1 or an unrecognized
\* string, ncpus for 'all', ncpus/2 for 'half', the integer itself when
\* positive and within range, ncpus when above it, and 1 for a large
\* negative integer.
C18_WithinHostCpusFromTwo ==
    (cfg_pc = "done" /\ host_ncpus >= 2) =>
        /\ cfg_result[1] \in 1 .. host_ncpus
        /\ cfg_result[1] = ExpectedSetting(cfg_setting, host_ncpus)

\* 1000 processes asked for on a host of three cpus
C18_Witness ==
    /\ cfg_pc = "done"
    /\ host_ncpus = 3
    /\ cfg_setting = << "int", 1000 >>
    /\ cfg_result = << 3 >>

----------------------------------------------------------------------------
(* The frame axis *)

\* the frame index the simulator computes for omega a of the evaluator's
\* period, and the one the evaluator computes
SimFrame(a) == Floor(mapAngle(a, sim_ome_period) - base[3], deltas[3])
EvalFrame(a) == Floor(a - base[3], deltas[3])

\* C20: for every omega of the configured period the frame index of the
\* simulator and that of the evaluator lie in -nframes .. nframes - 1 and
\* address the same frame after the wrap of a negative index; and every
\* reflection of a grain the simulator has rasterized, quantized as the
\* evaluator does at the grain's own position, has a frame index in
\* 0 .. nframes - 1 and lands on a voxel the simulator lit.
C20_FramesAgreeAcrossPeriods ==
    /\ \A a \in ome_period[1] .. ome_period[2] - 1 :
           /\ SimFrame(a) \in (0 - nframes) .. (nframes - 1)
           /\ EvalFrame(a) \in (0 - nframes) .. (nframes - 1)
           /\ WrapIndex(SimFrame(a), nframes) = WrapIndex(EvalFrame(a), nframes)
    /\ sim_pc = "simulate" =>
           \A k \in 1 .. sim_i :
               LET angs == FilteredAngles(grain_params[k])
                   det_xy == _project(angs, grain_params[k][2])
               IN  \A j \in 1 .. Len(angs) :
                       LET idx == _quant_and_clip(<< det_xy[j] >>,
                                                  << angs[j][3] >>,
                                                  base, deltas, clip_vals)
                       IN  idx # << >> =>
                               /\ idx[1][3] \in 0 .. nframes - 1
                               /\ VoxelOf(idx[1]) \in image_stack

\* grain 0 rasterized at position 0: its reflection at omega 3 went through
\* the negative frame index -1 of the simulator into frame 1
C20_Witness ==
    /\ sim_pc = "simulate"
    /\ sim_i >= 1
    /\ grain_params[1] = << 0, 0 >>
    /\ SimFrame(3) = 0 - 1
    /\ << 1, 1, 1 >> \in image_stack

----------------------------------------------------------------------------
(* C21: phases of zero items *)

\* the grand loop was started with no chunk and has ended
ZeroChunkRunEnded ==
    /\ pc \in {"done", "raised"}
    /\ << "start", "grand_loop", 0 >> \in { events[i] : i \in DOMAIN events }

\* C21: a grand loop whose limiter (or position list) gives 0 voxels still
\* completes: controller.finish does not raise after controller.start(name,
\* 0), no chunk is dispatched, and a confidence matrix of 0 columns is
\* handed to the controller.
C21_ZeroItemPhaseCompletes ==
    ZeroChunkRunEnded =>
        /\ err = << >>
        /\ pc = "done"
        /\ done_order = << >>
        /\ handed = << confidence >>
        /\ DOMAIN confidence = Cells(0)

----------------------------------------------------------------------------
(* C22: the module-level worker state *)

\* the multiproc_state context is active: the with block of lines 543-548
\* has been entered and not been left, normally or by an exception
ContextActive == ncpus > 1 /\ pc = "loop"

\* what multiproc_state saves for the current grand loop
CurrentState ==
    [chunk_size |-> chunk_size, image_stack |-> image_stack_dilated,
     coords |-> test_crds]

\* C22: _mp_state is defined exactly while the multiproc_state context is
\* active: it is set before the pool exists, every multiproc_inner_loop
\* reads the state of the current grand loop, and it is removed when the
\* context is left, on normal completion and when the body raises.
C22_WorkerStateOnlyInContext ==
    /\ (mp_state # << >>) <=> ContextActive
    /\ pool => mp_state # << >>
    /\ InFlightChunks # {} /\ ncpus > 1 => mp_state = << CurrentState >>

----------------------------------------------------------------------------
(* C23: unit_vector *)

\* a[i, j] divided by the norm of its vector when the norm exceeds epsf,
\* a[i, j] otherwise
Normalized(a, idx) ==
    LET v == a.rows[idx[1] + 1]
        nrmsq == SumSq(v, Len(v))
    IN  IF nrmsq > 0 THEN << v[idx[2] + 1], nrmsq >> ELSE << v[idx[2] + 1], 1 >>

\* every entry of the result was assigned by the call and is the
\* normalized entry of the input
AllNormalized ==
    /\ uv_err = << >>
    /\ DOMAIN uv_b.val = UvIndices(uv_a)
    /\ \A idx \in UvIndices(uv_a) :
           /\ idx \in uv_b.assigned
           /\ SameReal(uv_b.val[idx], Normalized(uv_a, idx))

\* C23: unit_vector normalizes every vector of its input: each entry of the
\* result of a 2-d input is assigned by the call and is a[i, j] over the
\* norm of row i (a[i, j] itself when the norm does not exceed epsf); the
\* same for the single vector of a 1-d input; more than 2 dimensions raise
\* ValueError.
C23_UnitVectorNormalizesEveryRow ==
    uv_pc = "done" =>
        IF uv_a.ndim > 2 THEN uv_err = << ValueError >> ELSE AllNormalized

----------------------------------------------------------------------------
(* C24: make_beam_rmat *)

\* Xe = Ye ^ Ze for the unit vectors Ye and Ze
XeOf(Ye, Ze) ==
    << Ye[2] * Ze[3] - Ze[2] * Ye[3],
       Ye[3] * Ze[1] - Ze[3] * Ye[1],
       Ye[1] * Ze[2] - Ze[1] * Ye[2] >>

\* the rotation matrix of the beam frame: columns Xe, Ye, Ze
BeamFrame(idx) ==
    LET Ze == ZeOf(bvec_l)
        Ye == YeOf(Ze, evec_l)
        YeSq == SumSq(Ye, 3)
    IN  IF idx[2] = 2 THEN << Ze[idx[1] + 1], 1 >>
        ELSE IF idx[2] = 1 THEN << Ye[idx[1] + 1], YeSq >>
        ELSE << XeOf(Ye, Ze)[idx[1] + 1], YeSq >>

\* C24: make_beam_rmat never reads or writes out before allocating it, and
\* on return each of the nine entries has been assigned during the call:
\* column 2 is Ze = -beam/|beam|, column 1 the unit vector Ye = Ze x eta,
\* column 0 Xe = Ye x Ze.
C24_BeamRmatAllocatedThenFilled ==
    rm_pc = "done" =>
        /\ ~rm_early
        /\ rm_err = << >>
        /\ rm_out.allocated
        /\ rm_out.assigned = Entries3x3
        /\ \A idx \in Entries3x3 : SameReal(rm_out.val[idx], BeamFrame(idx))

====
